---- MODULE Spec2Model ----
(***************************************************************************)
(* decoder-ring: a command-line transcoder (src/main.go).                  *)
(*                                                                         *)
(* Bytes are the integers 0..255 and a byte slice is a sequence of them.   *)
(* A transform returns a record [dst, err]; err.kind = "nil" is Go's nil.  *)
(* The standard-library codecs the program calls (encoding/hex,            *)
(* encoding/base32, encoding/base64, bytes, strings, strconv, fmt) are     *)
(* written out as operators next to the function of main.go that calls     *)
(* them.                                                                   *)
(***************************************************************************)
EXTENDS Integers, Sequences, FiniteSets, TLC

\* ------------------------------------------------------------- bounds
\* Longest input of the binary-to-text encoders.
MaxLen == 5
\* Longest plain input whose Crockford text is then respelled.
MaxVaryLen == 1
\* Most respellings (case, I/L/O, '-') applied to one Crockford text.
MaxEdits == 3
\* Most tokens of a float32-hex input.
MaxTokens == 2
\* Longest standard input of one invocation.
MaxIn == 3
\* Longest multi-byte input of rot13 (every single byte is always tried).
MaxRot == 3
\* Most positional arguments of one invocation.
MaxArgs == 2

\* ------------------------------------------------------------- bytes
Byte == 0..255
NL == 10
CR == 13
SP == 32
Dash == 45
PadChar == 61

NoErr == [kind |-> "nil", arg |-> 0]
Err(k, a) == [kind |-> k, arg |-> a]
Result(d, e) == [dst |-> d, err |-> e]

Min(a, b) == IF a < b THEN a ELSE b

\* s[1..n]
Take(s, n) == SubSeq(s, 1, Min(n, Len(s)))
\* s without its first n elements
Drop(s, n) == SubSeq(s, n + 1, Len(s))

RECURSIVE SeqsUpTo(_, _)
SeqsUpTo(S, n) ==
    IF n = 0 THEN {<<>>}
    ELSE LET shorter == SeqsUpTo(S, n - 1)
         IN  shorter \cup {Append(s, b) : s \in {t \in shorter : Len(t) = n - 1}, b \in S}

RECURSIVE Flatten(_)
Flatten(ss) == IF ss = <<>> THEN <<>> ELSE Head(ss) \o Flatten(Tail(ss))

Digits == [i \in 1..10 |-> 47 + i]
UpperAZ == [i \in 1..26 |-> 64 + i]
LowerAZ == [i \in 1..26 |-> 96 + i]

IsUpper(c) == c >= 65 /\ c <= 90
IsLower(c) == c >= 97 /\ c <= 122

\* decodeMap of an Encoding: the digit of character c, 255 when c is no symbol.
DecodeMap(alpha, c) ==
    IF \E i \in 1..Len(alpha) : alpha[i] = c
    THEN (CHOOSE i \in 1..Len(alpha) : alpha[i] = c) - 1
    ELSE 255

\* ------------------------------------------------------------- hex
HexTable == Digits \o SubSeq(LowerAZ, 1, 6)

\* hex.Encode: two lowercase digits per byte.
RECURSIVE HexEncode(_)
HexEncode(src) ==
    IF src = <<>> THEN <<>>
    ELSE <<HexTable[(Head(src) \div 16) + 1], HexTable[(Head(src) % 16) + 1]>>
         \o HexEncode(Tail(src))

hexEnc(src) == Result(HexEncode(src), NoErr)

\* reverseHexTable: 0-9, a-f and A-F; 255 otherwise.
FromHexChar(c) ==
    IF c >= 48 /\ c <= 57 THEN c - 48
    ELSE IF c >= 97 /\ c <= 102 THEN c - 97 + 10
    ELSE IF c >= 65 /\ c <= 70 THEN c - 65 + 10
    ELSE 255

\* hex.Decode: pairs from the left; the bytes decoded before the first bad
\* character are returned with the error; an odd length is reported last.
RECURSIVE HexDecode(_, _)
HexDecode(src, acc) ==
    IF Len(src) >= 2 THEN
        LET a == FromHexChar(src[1])
            b == FromHexChar(src[2])
        IN  IF a > 15 THEN Result(acc, Err("InvalidByteError", src[1]))
            ELSE IF b > 15 THEN Result(acc, Err("InvalidByteError", src[2]))
            ELSE HexDecode(Drop(src, 2), Append(acc, a * 16 + b))
    ELSE IF Len(src) = 1 THEN
        IF FromHexChar(src[1]) > 15
        THEN Result(acc, Err("InvalidByteError", src[1]))
        ELSE Result(acc, Err("ErrLength", 0))
    ELSE Result(acc, NoErr)

hexDec(src) == HexDecode(src, <<>>)

\* ------------------------------------------------------------- base32
StdEncoding32 == UpperAZ \o <<50, 51, 52, 53, 54, 55>>
HexEncoding32 == Digits \o SubSeq(UpperAZ, 1, 22)
\* "0123456789ABCDEFGHJKMNPQRSTVWXYZ"
crockfordEnc ==
    Digits \o <<65, 66, 67, 68, 69, 70, 71, 72, 74, 75, 77, 78,
                80, 81, 82, 83, 84, 86, 87, 88, 89, 90>>

\* The eight 5-bit digits of one group of up to five bytes (missing bytes 0).
B32Digits(g) ==
    LET b(i) == IF i <= Len(g) THEN g[i] ELSE 0
    IN  << b(1) \div 8,
           (b(1) % 8) * 4 + b(2) \div 64,
           (b(2) \div 2) % 32,
           (b(2) % 2) * 16 + b(3) \div 16,
           (b(3) % 16) * 2 + b(4) \div 128,
           (b(4) \div 4) % 32,
           (b(4) % 4) * 8 + b(5) \div 32,
           b(5) % 32 >>

\* B32Chars with a three-byte tail given four characters instead of five.
B32CharsShortTail(n) == CASE n = 1 -> 2 [] n = 2 -> 4 [] n = 3 -> 4 [] n = 4 -> 7 [] OTHER -> 8

\* Characters that carry data for a final group of n bytes.
B32Chars(n) == CASE n = 1 -> 2 [] n = 2 -> 4 [] n = 3 -> 5 [] n = 4 -> 7 [] OTHER -> 8

\* Encoding.Encode with the default padding (StdPadding, '=').
RECURSIVE B32Encode(_, _)
B32Encode(alpha, src) ==
    IF src = <<>> THEN <<>>
    ELSE LET g == Take(src, 5)
             d == B32Digits(g)
             k == B32Chars(Len(g))
         IN  [i \in 1..8 |-> IF i <= k THEN alpha[d[i] + 1] ELSE PadChar]
             \o B32Encode(alpha, Drop(src, 5))

\* stripNewlines: '\r' and '\n' are dropped before decoding.
StripNewlines(src) == SelectSeq(src, LAMBDA c : c # NL /\ c # CR)

\* Bytes packed from the first dlen digits of a quantum.
B32Pack(d, dlen) ==
    LET all == << (d[1] * 8 + d[2] \div 4) % 256,
                  ((d[2] % 4) * 64 + d[3] * 2 + d[4] \div 16) % 256,
                  ((d[4] % 16) * 16 + d[5] \div 2) % 256,
                  ((d[5] % 2) * 128 + d[6] * 4 + d[7] \div 8) % 256,
                  ((d[7] % 8) * 32 + d[8]) % 256 >>
        n == CASE dlen = 8 -> 5 [] dlen = 7 -> 4 [] dlen = 5 -> 3
               [] dlen = 4 -> 2 [] dlen = 2 -> 1 [] OTHER -> 0
    IN  Take(all, n)

\* The inner loop of Encoding.decode for one quantum: j digits read so far.
RECURSIVE B32Quantum(_, _, _, _, _)
B32Quantum(alpha, rest, j, dbuf, olen) ==
    IF j = 8 THEN [err |-> NoErr, dlen |-> 8, end |-> FALSE, rest |-> rest, dbuf |-> dbuf]
    ELSE IF rest = <<>> THEN
        \* the end was reached and padding is missing
        [err |-> Err("CorruptInputError", olen - j), dlen |-> j, end |-> FALSE,
         rest |-> rest, dbuf |-> dbuf]
    ELSE
        LET in == Head(rest)
            r == Tail(rest)
            bad(a) == [err |-> Err("CorruptInputError", a), dlen |-> j, end |-> FALSE,
                       rest |-> r, dbuf |-> dbuf]
        IN  IF in = PadChar /\ j >= 2 /\ Len(r) < 8 THEN
                IF Len(r) + j < 7 THEN bad(olen)
                ELSE IF \E k \in 0..(6 - j) : Len(r) > k /\ r[k + 1] # PadChar THEN
                    LET k0 == CHOOSE k \in 0..(6 - j) :
                                  /\ Len(r) > k /\ r[k + 1] # PadChar
                                  /\ \A m \in 0..(k - 1) : ~(Len(r) > m /\ r[m + 1] # PadChar)
                    IN  bad(olen - Len(r) + k0 - 1)
                ELSE IF j \in {1, 3, 6} THEN bad(olen - Len(r) - 1)
                ELSE [err |-> NoErr, dlen |-> j, end |-> TRUE, rest |-> r, dbuf |-> dbuf]
            ELSE
                LET v == DecodeMap(alpha, in)
                IN  IF v = 255 THEN bad(olen - Len(r) - 1)
                    ELSE B32Quantum(alpha, r, j + 1, [dbuf EXCEPT ![j + 1] = v], olen)

\* Encoding.decode: quantum after quantum until the input or the padding ends.
RECURSIVE B32DecodeLoop(_, _, _, _)
B32DecodeLoop(alpha, src, acc, olen) ==
    IF src = <<>> THEN Result(acc, NoErr)
    ELSE LET q == B32Quantum(alpha, src, 0, [i \in 1..8 |-> 0], olen)
         IN  IF q.err # NoErr THEN Result(acc, q.err)
             ELSE IF q.end THEN Result(acc \o B32Pack(q.dbuf, q.dlen), NoErr)
             ELSE B32DecodeLoop(alpha, q.rest, acc \o B32Pack(q.dbuf, q.dlen), olen)

\* Encoding.Decode
B32Decode(alpha, src) ==
    LET buf == StripNewlines(src)
    IN  B32DecodeLoop(alpha, buf, <<>>, Len(buf))

base32Enc(src) == Result(B32Encode(StdEncoding32, src), NoErr)
base32Dec(src) == B32Decode(StdEncoding32, src)
base32HexEnc(src) == Result(B32Encode(HexEncoding32, src), NoErr)
base32HexDec(src) == B32Decode(HexEncoding32, src)

base32CrockfordEnc(src) == Result(B32Encode(crockfordEnc, src), NoErr)

\* bytes.ToUpper on ASCII text (the texts of this model are ASCII).
ToUpper(src) == [i \in 1..Len(src) |-> IF IsLower(src[i]) THEN src[i] - 32 ELSE src[i]]
\* bytes.Replace(src, old, new, -1) for one-byte old and new.
Replace1(src, old, new) == [i \in 1..Len(src) |-> IF src[i] = old THEN new ELSE src[i]]
\* bytes.Replace(src, old, nil, -1) for a one-byte old.
Remove1(src, old) == SelectSeq(src, LAMBDA c : c # old)

\* CrockfordNormalize without the replacement of 'L'.
CrockfordNormalizeNoL(src) ==
    LET s1 == ToUpper(src)
        s2 == Replace1(s1, 73, 49)
        s4 == Replace1(s2, 79, 48)
    IN  Remove1(s4, Dash)

\* The normalisation of base32CrockfordDec, lines 295-299.
CrockfordNormalize(src) ==
    LET s1 == ToUpper(src)
        s2 == Replace1(s1, 73, 49)
        s3 == Replace1(s2, 76, 49)
        s4 == Replace1(s3, 79, 48)
    IN  Remove1(s4, Dash)

base32CrockfordDec(src) == B32Decode(crockfordEnc, CrockfordNormalize(src))

\* ------------------------------------------------------------- base64
StdEncoding64 == UpperAZ \o LowerAZ \o Digits \o <<43, 47>>

\* Encoding.Encode: three bytes to four characters, the tail padded with '='.
RECURSIVE B64Encode(_, _)
B64Encode(alpha, src) ==
    IF src = <<>> THEN <<>>
    ELSE LET g == Take(src, 3)
             b(i) == IF i <= Len(g) THEN g[i] ELSE 0
             d == << b(1) \div 4,
                     (b(1) % 4) * 16 + b(2) \div 16,
                     (b(2) % 16) * 4 + b(3) \div 64,
                     b(3) % 64 >>
         IN  [i \in 1..4 |-> IF i <= Len(g) + 1 THEN alpha[d[i] + 1] ELSE PadChar]
             \o B64Encode(alpha, Drop(src, 3))

\* The first index >= si (0-based) of src that holds no '\r' or '\n'.
RECURSIVE SkipNewlines(_, _)
SkipNewlines(src, si) ==
    IF si < Len(src) /\ src[si + 1] \in {NL, CR} THEN SkipNewlines(src, si + 1) ELSE si

\* The bytes of a quantum of dlen digits (dlen - 1 of them).
B64Pack(d, dlen) ==
    Take(<< (d[1] * 4 + d[2] \div 16) % 256,
            ((d[2] % 16) * 16 + d[3] \div 4) % 256,
            ((d[3] % 4) * 64 + d[4]) % 256 >>, dlen - 1)

\* Encoding.decodeQuantum (padded, not strict): si is the 0-based read index,
\* j the digits read. Returns the new index, the bytes and the error.
RECURSIVE B64Quantum(_, _, _, _, _)
B64Quantum(alpha, src, si, j, dbuf) ==
    LET ret(nsi, bytes, e) == [si |-> nsi, out |-> bytes, err |-> e]
        corrupt(nsi, a) == ret(nsi, <<>>, Err("CorruptInputError", a))
    IN  IF j = 4 THEN ret(si, B64Pack(dbuf, 4), NoErr)
        ELSE IF Len(src) = si THEN
            IF j = 0 THEN ret(si, <<>>, NoErr) ELSE corrupt(si, si - j)
        ELSE
            LET in == src[si + 1]
                out == DecodeMap(alpha, in)
            IN  IF out # 255 THEN
                    B64Quantum(alpha, src, si + 1, j + 1, [dbuf EXCEPT ![j + 1] = out])
                ELSE IF in \in {NL, CR} THEN
                    B64Quantum(alpha, src, si + 1, j, dbuf)
                ELSE IF in # PadChar THEN corrupt(si + 1, si)
                ELSE IF j < 2 THEN corrupt(si + 1, si)
                ELSE
                    \* padding: "==" after two digits, "=" after three
                    LET s2 == SkipNewlines(src, si + 1)
                        afterPad == IF j = 2 THEN s2 + 1 ELSE si + 1
                        s3 == SkipNewlines(src, afterPad)
                    IN  IF j = 2 /\ s2 = Len(src) THEN corrupt(s2, Len(src))
                        ELSE IF j = 2 /\ src[s2 + 1] # PadChar THEN corrupt(s2, s2 - 1)
                        ELSE ret(s3, B64Pack(dbuf, j),
                                 IF s3 < Len(src)
                                 THEN Err("CorruptInputError", s3) ELSE NoErr)

\* Encoding.Decode: quanta until the input ends or one fails; the bytes
\* decoded so far are returned with the error.
RECURSIVE B64DecodeLoop(_, _, _, _)
B64DecodeLoop(alpha, src, si, acc) ==
    IF si >= Len(src) THEN Result(acc, NoErr)
    ELSE LET q == B64Quantum(alpha, src, si, 0, <<0, 0, 0, 0>>)
         IN  IF q.err # NoErr THEN Result(acc \o q.out, q.err)
             ELSE B64DecodeLoop(alpha, src, q.si, acc \o q.out)

B64Decode(alpha, src) == B64DecodeLoop(alpha, src, 0, <<>>)

base64Enc(src) == Result(B64Encode(StdEncoding64, src), NoErr)
base64Dec(src) == B64Decode(StdEncoding64, src)

URLEncoding64 == UpperAZ \o LowerAZ \o Digits \o <<45, 95>>
base64URLEnc(src) == Result(B64Encode(URLEncoding64, src), NoErr)
base64URLDec(src) == B64Decode(URLEncoding64, src)

\* ------------------------------------------------------------- rot13
\* Rot13Byte without the wrap-around modulo 26.
Rot13ByteNoWrap(b) ==
    IF b >= 65 /\ b <= 90 THEN 65 + (b - 65 + 13)
    ELSE IF b >= 97 /\ b <= 122 THEN 97 + (b - 97 + 13)
    ELSE b

\* One byte of rot13's loop body, lines 250-256.
Rot13Byte(b) ==
    IF b >= 65 /\ b <= 90 THEN 65 + ((b - 65 + 13) % 26)
    ELSE IF b >= 97 /\ b <= 122 THEN 97 + ((b - 97 + 13) % 26)
    ELSE b

\* rot13's loop on the storage mem of its argument: dst = src[:0] has length 0
\* and src's array, so the i-th append stores at index i of that array, after
\* the range loop has read index i. Returns the array when i..n are still to do.
RECURSIVE Rot13Loop(_, _)
Rot13Loop(mem, i) ==
    IF i > Len(mem) THEN mem
    ELSE Rot13Loop([mem EXCEPT ![i] = Rot13Byte(mem[i])], i + 1)

\* The array of the argument after rot13 returns.
Rot13Store(mem) == Rot13Loop(mem, 1)

\* rot13's result: dst is the argument's array, all of it.
rot13(src) == Result(Rot13Store(src), NoErr)

\* ------------------------------------------------------------- float32-hex
\* A uint32 is its eight hexadecimal digits (0..15), most significant first;
\* a float32 is its bit pattern in the same form.
Whitespace == {9, 10, 11, 12, 13, SP}

\* strings.Fields on ASCII text: the maximal runs of non-space characters.
RECURSIVE FieldsFrom(_, _, _)
FieldsFrom(src, cur, acc) ==
    IF src = <<>> THEN (IF cur = <<>> THEN acc ELSE Append(acc, cur))
    ELSE IF Head(src) \in Whitespace
         THEN FieldsFrom(Tail(src), <<>>, IF cur = <<>> THEN acc ELSE Append(acc, cur))
         ELSE FieldsFrom(Tail(src), Append(cur, Head(src)), acc)

Fields(src) == FieldsFrom(src, <<>>, <<>>)

RECURSIVE StripLeadingZeros(_)
StripLeadingZeros(ds) ==
    IF ds # <<>> /\ Head(ds) = 0 THEN StripLeadingZeros(Tail(ds)) ELSE ds

\* strconv.ParseUint(word, 16, 32): hexadecimal digits of either case and
\* nothing else (no sign, no prefix, no underscore); a value of more than 32
\* bits is a range error.
ParseUint32Hex(word) ==
    IF word = <<>> \/ \E i \in 1..Len(word) : FromHexChar(word[i]) > 15
    THEN [val |-> <<>>, err |-> Err("ErrSyntax", 0)]
    ELSE LET ds == StripLeadingZeros([i \in 1..Len(word) |-> FromHexChar(word[i])])
         IN  IF Len(ds) > 8 THEN [val |-> <<>>, err |-> Err("ErrRange", 0)]
             ELSE [val |-> [i \in 1..8 |-> IF i <= 8 - Len(ds) THEN 0
                                           ELSE ds[i - (8 - Len(ds))]],
                   err |-> NoErr]

F32Exp(bits) == (bits[1] % 8) * 32 + bits[2] * 2 + bits[3] \div 8
F32MantZero(bits) == bits[3] % 8 = 0 /\ \A i \in 4..8 : bits[i] = 0
IsNaN(bits) == F32Exp(bits) = 255 /\ ~F32MantZero(bits)
IsInf(bits) == F32Exp(bits) = 255 /\ F32MantZero(bits)
F32Neg(bits) == bits[1] >= 8

\* The shortest decimal text strconv gives each finite float32 tried here, and
\* the float32 nearest to that text.
DecimalTable ==
    {
      [bits |-> <<0, 0, 0, 0, 0, 0, 0, 0>>, text |-> <<48>>],   \* 00000000  0
      [bits |-> <<8, 0, 0, 0, 0, 0, 0, 0>>, text |-> <<45, 48>>],   \* 80000000  -0
      [bits |-> <<3, 15, 8, 0, 0, 0, 0, 0>>, text |-> <<49>>],   \* 3F800000  1
      [bits |-> <<11, 15, 8, 0, 0, 0, 0, 0>>, text |-> <<45, 49>>],   \* BF800000  -1
      [bits |-> <<3, 15, 12, 0, 0, 0, 0, 0>>, text |-> <<49, 46, 53>>],   \* 3FC00000  1.5
      [bits |-> <<3, 15, 0, 0, 0, 0, 0, 0>>, text |-> <<48, 46, 53>>],   \* 3F000000  0.5
      [bits |-> <<3, 13, 12, 12, 12, 12, 12, 13>>, text |-> <<48, 46, 49>>],   \* 3DCCCCCD  0.1
      [bits |-> <<4, 9, 7, 4, 2, 4, 0, 0>>, text |-> <<49, 101, 43, 48, 54>>],   \* 49742400  1e+06
      [bits |-> <<0, 0, 0, 0, 0, 0, 0, 1>>, text |-> <<49, 101, 45, 52, 53>>],   \* 00000001  1e-45
      [bits |-> <<7, 15, 7, 15, 15, 15, 15, 15>>, text |-> <<51, 46, 52, 48, 50, 56, 50, 51, 53, 101, 43, 51, 56>>]   \* 7F7FFFFF  3.4028235e+38
    }

TextNaN == <<78, 97, 78>>
TextPosInf == <<43, 73, 110, 102>>
TextNegInf == <<45, 73, 110, 102>>
QuietNaN == <<7, 15, 12, 0, 0, 0, 0, 0>>
PosInf == <<7, 15, 8, 0, 0, 0, 0, 0>>
NegInf == <<15, 15, 8, 0, 0, 0, 0, 0>>

\* fmt's %g of a float32: NaN, +Inf and -Inf by name, else the shortest
\* decimal that identifies the value.
FormatG32(bits) ==
    IF IsNaN(bits) THEN TextNaN
    ELSE IF IsInf(bits) THEN (IF F32Neg(bits) THEN TextNegInf ELSE TextPosInf)
    ELSE (CHOOSE e \in DecimalTable : e.bits = bits).text

\* strconv.ParseFloat(word, 32) followed by float32() and math.Float32bits:
\* the special names without regard to case, else the nearest float32.
ParseFloat32(word) ==
    LET low == [i \in 1..Len(word) |-> IF IsUpper(word[i]) THEN word[i] + 32 ELSE word[i]]
        unsigned == IF low # <<>> /\ Head(low) \in {43, 45} THEN Tail(low) ELSE low
        neg == low # <<>> /\ Head(low) = 45
    IN  IF unsigned = <<110, 97, 110>> /\ low = unsigned
            THEN [bits |-> QuietNaN, err |-> NoErr]
        ELSE IF unsigned \in {<<105, 110, 102>>, <<105, 110, 102, 105, 110, 105, 116, 121>>}
            THEN [bits |-> IF neg THEN NegInf ELSE PosInf, err |-> NoErr]
        ELSE IF \E e \in DecimalTable : e.text = word
            THEN [bits |-> (CHOOSE e \in DecimalTable : e.text = word).bits, err |-> NoErr]
        ELSE [bits |-> <<>>, err |-> Err("NotTabulated", 0)]

\* FormatX8 with lowercase digits, as %.8x gives.
FormatX8Lower(bits) ==
    [i \in 1..8 |-> IF bits[i] < 10 THEN 48 + bits[i] ELSE 97 + bits[i] - 10]

\* fmt's %.8X of a uint32: at least eight uppercase digits, zero-padded.
FormatX8(bits) ==
    [i \in 1..8 |-> IF bits[i] < 10 THEN 48 + bits[i] ELSE 65 + bits[i] - 10]

\* float32hexDec: every word parsed as hexadecimal and printed with "%g ".
RECURSIVE Float32HexDecWords(_, _)
Float32HexDecWords(words, acc) ==
    IF words = <<>> THEN Result(acc, NoErr)
    ELSE LET s == ParseUint32Hex(Head(words))
         IN  IF s.err # NoErr THEN Result(<<>>, s.err)
             ELSE Float32HexDecWords(Tail(words), acc \o FormatG32(s.val) \o <<SP>>)

float32hexDec(src) == Float32HexDecWords(Fields(src), <<>>)

\* float32hexEnc: every word parsed as a float and printed with "%.8X ".
RECURSIVE Float32HexEncWords(_, _)
Float32HexEncWords(words, acc) ==
    IF words = <<>> THEN Result(acc, NoErr)
    ELSE LET s == ParseFloat32(Head(words))
         IN  IF s.err # NoErr THEN Result(<<>>, s.err)
             ELSE Float32HexEncWords(Tail(words), acc \o FormatX8(s.bits) \o <<SP>>)

float32hexEnc(src) == Float32HexEncWords(Fields(src), <<>>)

\* ------------------------------------------------------------- state
VARIABLES
    \* one invocation of the program
    modeStr,    \* flag.Arg(0): "" when there is no positional argument
    nargs,      \* flag.NArg()
    encode,     \* -encode / -e
    strip,      \* -strip / -s
    emitFlag,   \* -emit / -t as given on the command line
    emit,       \* *emit, which main may force to false
    stdin,      \* the bytes on standard input
    pc,         \* "main", "exec", "exit"; "off" in the transform pipelines
    mode,       \* the transform main selected: "nil" or a function's name
    ianaAsked,  \* ianaindex.IANA.Encoding was called
    stdinRead,  \* io.ReadAll(os.Stdin) returned
    ran,        \* the transform was called
    fin,        \* the bytes the transform was called with
    res,        \* what the transform returned
    stdout,     \* bytes written to standard output
    stderr,     \* what was written to standard error
    exitCode,   \* the exit status, -1 while running
    \* two transforms of one mode applied one after the other
    fmode,      \* the mode
    arg,        \* the first transform's argument as the caller built it
    toks,       \* float32-hex: the hex words arg was joined from
    mem,        \* the array behind the first transform's argument
    stage,      \* "input", "text", "done"; "off" in the invocations
    base,       \* the text before it was respelled
    text,       \* the second transform's argument
    edits,      \* respellings applied to text
    r1,         \* the first transform's result
    r2          \* the second transform's result

cliVars == <<modeStr, nargs, encode, strip, emitFlag, emit, stdin, pc, mode, ianaAsked,
             stdinRead, ran, fin, res, stdout, stderr, exitCode>>
fnVars == <<fmode, arg, toks, mem, stage, base, text, edits, r1, r2>>
vars == <<cliVars, fnVars>>

Nothing == Result(<<>>, NoErr)

CliOff ==
    /\ modeStr = "" /\ nargs = 0 /\ encode = FALSE /\ strip = FALSE
    /\ emitFlag = FALSE /\ emit = FALSE /\ stdin = <<>> /\ pc = "off"
    /\ mode = "nil" /\ ianaAsked = FALSE /\ stdinRead = FALSE /\ ran = FALSE
    /\ fin = <<>> /\ res = Nothing /\ stdout = <<>> /\ stderr = <<>> /\ exitCode = -1

FnOff ==
    /\ fmode = "" /\ arg = <<>> /\ toks = <<>> /\ mem = <<>> /\ stage = "off"
    /\ base = <<>> /\ text = <<>> /\ edits = 0 /\ r1 = Nothing /\ r2 = Nothing

\* ------------------------------------------------------------- registry
Pair(d, e) == [decoder |-> d, encoder |-> e]

\* modes with a decoder registered for hex-extended.
modesWithDumpDecoder ==
    ("base32" :> Pair("base32Dec", "base32Enc"))
    @@ ("base32-crockford" :> Pair("base32CrockfordDec", "base32CrockfordEnc"))
    @@ ("base32-hex" :> Pair("base32HexDec", "base32HexEnc"))
    @@ ("base64" :> Pair("base64Dec", "base64Enc"))
    @@ ("base64-url" :> Pair("base64URLDec", "base64URLEnc"))
    @@ ("codepoint" :> Pair("nil", "codepointEnc"))
    @@ ("go" :> Pair("goDec", "goEnc"))
    @@ ("hex" :> Pair("hexDec", "hexEnc"))
    @@ ("hex-extended" :> Pair("hexDec", "hexExtEnc"))
    @@ ("html" :> Pair("htmlDec", "htmlEnc"))
    @@ ("json" :> Pair("jsonDec", "jsonEnc"))
    @@ ("qp" :> Pair("quotedPrintableDec", "quotedPrintableEnc"))
    @@ ("rot13" :> Pair("rot13", "rot13"))
    @@ ("url-path" :> Pair("urlPathDec", "urlPathEnc"))
    @@ ("url-query" :> Pair("urlQueryDec", "urlQueryEnc"))
    @@ ("float32-hex" :> Pair("float32hexDec", "float32hexEnc"))
    @@ ("float16-hex" :> Pair("float16hexDec", "float16hexEnc"))

\* var modes: the name of each mode's decoder and encoder, "nil" for none.
modes ==
    ("base32" :> Pair("base32Dec", "base32Enc"))
    @@ ("base32-crockford" :> Pair("base32CrockfordDec", "base32CrockfordEnc"))
    @@ ("base32-hex" :> Pair("base32HexDec", "base32HexEnc"))
    @@ ("base64" :> Pair("base64Dec", "base64Enc"))
    @@ ("base64-url" :> Pair("base64URLDec", "base64URLEnc"))
    @@ ("codepoint" :> Pair("nil", "codepointEnc"))
    @@ ("go" :> Pair("goDec", "goEnc"))
    @@ ("hex" :> Pair("hexDec", "hexEnc"))
    @@ ("hex-extended" :> Pair("nil", "hexExtEnc"))
    @@ ("html" :> Pair("htmlDec", "htmlEnc"))
    @@ ("json" :> Pair("jsonDec", "jsonEnc"))
    @@ ("qp" :> Pair("quotedPrintableDec", "quotedPrintableEnc"))
    @@ ("rot13" :> Pair("rot13", "rot13"))
    @@ ("url-path" :> Pair("urlPathDec", "urlPathEnc"))
    @@ ("url-query" :> Pair("urlQueryDec", "urlQueryEnc"))
    @@ ("float32-hex" :> Pair("float32hexDec", "float32hexEnc"))
    @@ ("float16-hex" :> Pair("float16hexDec", "float16hexEnc"))

\* modes[name]: the zero value, two nil functions, for a name not in the map.
Lookup(name) == IF name \in DOMAIN modes THEN modes[name] ELSE Pair("nil", "nil")

\* Charset names tried: one x/text implements, and one IANA registers that
\* x/text does not implement.
IanaSupported == {"utf-8"}
IanaUnsupported == {"utf-7"}

\* ianaindex.IANA.Encoding(name): an encoding for a name it supports, (nil,
\* nil) for a registered name it does not implement, an error otherwise.
IanaEncoding(name) ==
    IF name \in IanaSupported THEN "supported"
    ELSE IF name \in IanaUnsupported THEN "unsupported"
    ELSE "unknown"

\* Mode names tried: the registry's, the charset names, and one that is neither.
ModeNames == DOMAIN modes \cup IanaSupported \cup IanaUnsupported \cup {"rot-13"}

\* ------------------------------------------------------------- invocation
\* Byte values of standard input: '\n', '4', 'g'.
InBytes == {NL, 52, 103}

Said(w, e) == [what |-> w, err |-> e]
Usage == Said("usage", NoErr)
Panic == Said("panic", NoErr)

Init ==
    /\ FnOff
    /\ nargs \in 0..MaxArgs
    /\ modeStr \in IF nargs = 0 THEN {""} ELSE ModeNames
    /\ encode \in BOOLEAN /\ strip \in BOOLEAN /\ emitFlag \in BOOLEAN
    /\ emit = emitFlag
    /\ stdin \in SeqsUpTo(InBytes, MaxIn)
    /\ pc = "main" /\ mode = "nil" /\ ianaAsked = FALSE /\ stdinRead = FALSE
    /\ ran = FALSE /\ fin = <<>> /\ res = Nothing /\ stdout = <<>> /\ stderr = <<>>
    /\ exitCode = -1

\* Lines 73-77: the static lookup for the direction asked for.
Static == IF encode THEN Lookup(modeStr).encoder ELSE Lookup(modeStr).decoder

\* Lines 79-88 when the resolver returns an encoding or an error.
Resolved ==
    IF Static # "nil" THEN Static
    ELSE IF IanaEncoding(modeStr) = "supported"
         THEN (IF encode THEN "ianaEncoder" ELSE "ianaDecoder")
         ELSE "nil"

\* Lines 80-85 with i == nil and err == nil: i.NewEncoder() or i.NewDecoder()
\* on a nil interface panics, and the runtime exits with status 2.
NilEncoding == Static = "nil" /\ IanaEncoding(modeStr) = "unsupported"

MainPanic ==
    /\ pc = "main" /\ NilEncoding
    /\ ianaAsked' = TRUE
    /\ stderr' = <<Panic>> /\ exitCode' = 2 /\ pc' = "exit"
    /\ UNCHANGED <<modeStr, nargs, encode, strip, emitFlag, emit, stdin, mode,
                   stdinRead, ran, fin, res, stdout, fnVars>>

\* Lines 73-93: no transform, or not exactly one argument.
MainUsage ==
    /\ pc = "main" /\ ~NilEncoding
    /\ nargs # 1 \/ Resolved = "nil"
    /\ ianaAsked' = (Static = "nil")
    /\ mode' = Resolved
    /\ stderr' = <<Usage>> /\ exitCode' = 2 /\ pc' = "exit"
    /\ UNCHANGED <<modeStr, nargs, encode, strip, emitFlag, emit, stdin,
                   stdinRead, ran, fin, res, stdout, fnVars>>

\* Lines 73-99: a transform was found; hex-extended switches *emit off.
MainSelect ==
    /\ pc = "main" /\ ~NilEncoding
    /\ nargs = 1 /\ Resolved # "nil"
    /\ ianaAsked' = (Static = "nil")
    /\ mode' = Resolved
    /\ emit' = IF modeStr = "hex-extended" THEN FALSE ELSE emit
    /\ pc' = "exec"
    /\ UNCHANGED <<modeStr, nargs, encode, strip, emitFlag, stdin,
                   stdinRead, ran, fin, res, stdout, stderr, exitCode, fnVars>>

\* What a transform whose codec is not written out here may return: some
\* bytes, with or without an error.
AnyOutcome ==
    {Result(d, e) : d \in {<<>>, <<88>>, <<88, NL>>}, e \in {NoErr, Err("error", 0)}}

\* The transforms of main.go that return a nil error on every path.
NeverFails == {"hexExtEnc", "goEnc", "htmlEnc", "htmlDec", "urlPathEnc", "urlQueryEnc",
               "codepointEnc"}

\* f(b) for the function main selected.
Outcomes(f, b) ==
    CASE f = "hexEnc" -> {hexEnc(b)}
      [] f = "hexDec" -> {hexDec(b)}
      [] f = "base32Enc" -> {base32Enc(b)}
      [] f = "base32Dec" -> {base32Dec(b)}
      [] f = "base32HexEnc" -> {base32HexEnc(b)}
      [] f = "base32HexDec" -> {base32HexDec(b)}
      [] f = "base32CrockfordEnc" -> {base32CrockfordEnc(b)}
      [] f = "base32CrockfordDec" -> {base32CrockfordDec(b)}
      [] f = "base64Enc" -> {base64Enc(b)}
      [] f = "base64Dec" -> {base64Dec(b)}
      [] f = "base64URLEnc" -> {base64URLEnc(b)}
      [] f = "base64URLDec" -> {base64URLDec(b)}
      [] f = "rot13" -> {rot13(b)}
      [] f \in NeverFails -> {r \in AnyOutcome : r.err = NoErr}
      [] OTHER -> AnyOutcome

\* StripInput removing every trailing newline.
RECURSIVE StripInputAll(_, _)
StripInputAll(b, stripNewline) ==
    IF stripNewline /\ Len(b) > 0 /\ b[Len(b)] = NL
    THEN StripInputAll(SubSeq(b, 1, Len(b) - 1), stripNewline)
    ELSE b

\* Lines 129-133.
StripInput(b, stripNewline) ==
    IF stripNewline /\ Len(b) > 0 /\ b[Len(b)] = NL
    THEN SubSeq(b, 1, Len(b) - 1)
    ELSE b

\* Lines 138-141.
Trailer(emitNewline) == IF emitNewline THEN <<NL>> ELSE <<>>

\* exec, lines 125-128, and main, lines 99-102: reading standard input fails.
ExecReadError ==
    /\ pc = "exec"
    /\ stderr' = <<Said("Error", Err("read", 0))>> /\ exitCode' = 1 /\ pc' = "exit"
    /\ UNCHANGED <<modeStr, nargs, encode, strip, emitFlag, emit, stdin, mode, ianaAsked,
                   stdinRead, ran, fin, res, stdout, fnVars>>

\* ExecTransformError with the partial buffer written before the error is returned.
ExecTransformErrorWritesPartial ==
    /\ pc = "exec"
    /\ \E r \in Outcomes(mode, StripInput(stdin, strip)) :
          /\ r.err # NoErr
          /\ stdinRead' = TRUE /\ ran' = TRUE
          /\ fin' = StripInput(stdin, strip) /\ res' = r
          /\ stdout' = r.dst
          /\ stderr' = <<Said("Error", r.err)>> /\ exitCode' = 1 /\ pc' = "exit"
    /\ UNCHANGED <<modeStr, nargs, encode, strip, emitFlag, emit, stdin, mode, ianaAsked,
                   fnVars>>

\* exec, lines 125-137, and main, lines 99-102: the transform returns an error.
ExecTransformError ==
    /\ pc = "exec"
    /\ \E r \in Outcomes(mode, StripInput(stdin, strip)) :
          /\ r.err # NoErr
          /\ stdinRead' = TRUE /\ ran' = TRUE
          /\ fin' = StripInput(stdin, strip) /\ res' = r
          /\ stderr' = <<Said("Error", r.err)>> /\ exitCode' = 1 /\ pc' = "exit"
    /\ UNCHANGED <<modeStr, nargs, encode, strip, emitFlag, emit, stdin, mode, ianaAsked,
                   stdout, fnVars>>

\* exec, lines 125-147: the result and the trailer are written; exit status 0.
ExecWrite ==
    /\ pc = "exec"
    /\ \E r \in Outcomes(mode, StripInput(stdin, strip)) :
          /\ r.err = NoErr
          /\ stdinRead' = TRUE /\ ran' = TRUE
          /\ fin' = StripInput(stdin, strip) /\ res' = r
          /\ stdout' = r.dst \o Trailer(emit)
          /\ exitCode' = 0 /\ pc' = "exit"
    /\ UNCHANGED <<modeStr, nargs, encode, strip, emitFlag, emit, stdin, mode, ianaAsked,
                   stderr, fnVars>>

\* exec, lines 142-146, and main, lines 99-102: io.Copy fails after k bytes.
ExecWriteError ==
    /\ pc = "exec"
    /\ \E r \in Outcomes(mode, StripInput(stdin, strip)) :
          /\ r.err = NoErr
          /\ stdinRead' = TRUE /\ ran' = TRUE
          /\ fin' = StripInput(stdin, strip) /\ res' = r
          /\ \E k \in 0..Len(r.dst \o Trailer(emit)) :
                stdout' = Take(r.dst \o Trailer(emit), k)
          /\ stderr' = <<Said("Error", Err("write", 0))>> /\ exitCode' = 1 /\ pc' = "exit"
    /\ UNCHANGED <<modeStr, nargs, encode, strip, emitFlag, emit, stdin, mode, ianaAsked,
                   fnVars>>

Next ==
    \/ MainPanic \/ MainUsage \/ MainSelect
    \/ ExecReadError \/ ExecTransformError \/ ExecWrite \/ ExecWriteError

Spec == Init /\ [][Next]_vars

\* ------------------------------------------------------------- pipelines
\* Byte values of the encoders' inputs: all bits clear, one bit, all bits set.
EncBytes == {0, 8, 255}
\* Byte values of rot13's longer inputs: 'A', 'Z', 'n'.
RotBytes == {65, 90, 110}
\* Texts given to the Crockford decoder as they are: "ZZ" and "01======".
CrockTexts == {<<90, 90>>, <<48, 49, 61, 61, 61, 61, 61, 61>>}
\* 00000000 80000000 3F800000 BF800000 3FC00000 3fc00000 3F000000 3DCCCCCD 49742400 1 7F7FFFFF 7F800000 FF800000 ff800000 7FC00000 7FC00001 FFC00000 7F800001 03FC00000 0
HexWords ==
    {
      <<48, 48, 48, 48, 48, 48, 48, 48>>,
      <<56, 48, 48, 48, 48, 48, 48, 48>>,
      <<51, 70, 56, 48, 48, 48, 48, 48>>,
      <<66, 70, 56, 48, 48, 48, 48, 48>>,
      <<51, 70, 67, 48, 48, 48, 48, 48>>,
      <<51, 102, 99, 48, 48, 48, 48, 48>>,
      <<51, 70, 48, 48, 48, 48, 48, 48>>,
      <<51, 68, 67, 67, 67, 67, 67, 68>>,
      <<52, 57, 55, 52, 50, 52, 48, 48>>,
      <<49>>,
      <<55, 70, 55, 70, 70, 70, 70, 70>>,
      <<55, 70, 56, 48, 48, 48, 48, 48>>,
      <<70, 70, 56, 48, 48, 48, 48, 48>>,
      <<102, 102, 56, 48, 48, 48, 48, 48>>,
      <<55, 70, 67, 48, 48, 48, 48, 48>>,
      <<55, 70, 67, 48, 48, 48, 48, 49>>,
      <<70, 70, 67, 48, 48, 48, 48, 48>>,
      <<55, 70, 56, 48, 48, 48, 48, 49>>,
      <<48, 51, 70, 67, 48, 48, 48, 48, 48>>,
      <<48>>
    }

RECURSIVE JoinSp(_)
JoinSp(ws) ==
    IF ws = <<>> THEN <<>>
    ELSE IF Len(ws) = 1 THEN ws[1]
    ELSE ws[1] \o <<SP>> \o JoinSp(Tail(ws))

RoundTripModes == {"hex", "base64", "base32", "base32-hex", "base32-crockford"}

\* The arguments tried: bytes for the encoders and for rot13, hex words for
\* float32hexDec, and two texts handed to the Crockford decoder directly.
InitFn ==
    /\ CliOff
    /\ edits = 0 /\ r1 = Nothing /\ r2 = Nothing
    /\ \/ /\ fmode \in RoundTripModes
          /\ arg \in SeqsUpTo(EncBytes, MaxLen)
          /\ toks = <<>> /\ mem = arg /\ stage = "input" /\ base = <<>> /\ text = <<>>
       \/ /\ fmode = "base32-crockford"
          /\ text \in CrockTexts
          /\ arg = <<>> /\ toks = <<>> /\ mem = arg /\ stage = "text" /\ base = text
       \/ /\ fmode = "rot13"
          /\ arg \in {<<b>> : b \in Byte} \cup SeqsUpTo(RotBytes, MaxRot)
          /\ toks = <<>> /\ mem = arg /\ stage = "input" /\ base = <<>> /\ text = <<>>
       \/ /\ fmode = "float32-hex"
          /\ toks \in SeqsUpTo(HexWords, MaxTokens) \ {<<>>}
          /\ arg = JoinSp(toks)
          /\ mem = arg /\ stage = "input" /\ base = <<>> /\ text = <<>>

\* The first call: f(mem) returns r and leaves the array as it was.
First(m, r) ==
    /\ stage = "input" /\ fmode = m
    /\ r1' = r /\ text' = r.dst /\ base' = r.dst /\ stage' = "text"
    /\ UNCHANGED <<cliVars, fmode, arg, toks, mem, edits, r2>>

\* The second call: f(text) returns r.
Second(m, r) ==
    /\ stage = "text" /\ fmode = m
    /\ r2' = r /\ stage' = "done"
    /\ UNCHANGED <<cliVars, fmode, arg, toks, mem, base, text, edits, r1>>

HexEncCall == First("hex", hexEnc(mem))
HexDecCall == Second("hex", hexDec(text))
Base64EncCall == First("base64", base64Enc(mem))
Base64DecCall == Second("base64", base64Dec(text))
Base32EncCall == First("base32", base32Enc(mem))
Base32DecCall == Second("base32", base32Dec(text))
Base32HexEncCall == First("base32-hex", base32HexEnc(mem))
Base32HexDecCall == Second("base32-hex", base32HexDec(text))
Base32CrockfordEncCall == First("base32-crockford", base32CrockfordEnc(mem))
Base32CrockfordDecCall == Second("base32-crockford", base32CrockfordDec(text))
Float32HexDecCall == First("float32-hex", float32hexDec(mem))
Float32HexEncCall == Second("float32-hex", float32hexEnc(text))

\* rot13(mem): the result is the argument's own array, which the loop rewrote.
Rot13FirstCall ==
    /\ stage = "input" /\ fmode = "rot13"
    /\ r1' = rot13(mem) /\ mem' = Rot13Store(mem)
    /\ text' = r1'.dst /\ base' = r1'.dst /\ stage' = "text"
    /\ UNCHANGED <<cliVars, fmode, arg, toks, edits, r2>>

\* rot13 of the first result, which is still that array.
Rot13SecondCall ==
    /\ stage = "text" /\ fmode = "rot13"
    /\ r2' = rot13(mem) /\ mem' = Rot13Store(mem)
    /\ text' = r2'.dst /\ stage' = "done"
    /\ UNCHANGED <<cliVars, fmode, arg, toks, base, edits, r1>>

\* One respelling of a Crockford text: a letter in the other case, 'I' or
\* 'L' for a '1', 'O' for a '0', or one more '-' anywhere.
Respellings(t) ==
    {[t EXCEPT ![i] = t[i] + 32] : i \in {k \in 1..Len(t) : IsUpper(t[k])}}
    \cup {[t EXCEPT ![i] = t[i] - 32] : i \in {k \in 1..Len(t) : IsLower(t[k])}}
    \cup {[t EXCEPT ![i] = c] : i \in {k \in 1..Len(t) : t[k] = 49}, c \in {73, 76}}
    \cup {[t EXCEPT ![i] = 79] : i \in {k \in 1..Len(t) : t[k] = 48}}
    \cup {Take(t, k) \o <<Dash>> \o Drop(t, k) : k \in 0..Len(t)}

Respell ==
    /\ stage = "text" /\ fmode = "base32-crockford"
    /\ edits < MaxEdits /\ Len(arg) <= MaxVaryLen
    /\ text' \in Respellings(text)
    /\ edits' = edits + 1
    /\ UNCHANGED <<cliVars, fmode, arg, toks, mem, stage, base, r1, r2>>

NextFn ==
    \/ HexEncCall \/ HexDecCall
    \/ Base64EncCall \/ Base64DecCall
    \/ Base32EncCall \/ Base32DecCall
    \/ Base32HexEncCall \/ Base32HexDecCall
    \/ Base32CrockfordEncCall \/ Base32CrockfordDecCall
    \/ Float32HexDecCall \/ Float32HexEncCall
    \/ Rot13FirstCall \/ Rot13SecondCall
    \/ Respell

SpecFn == InitFn /\ [][NextFn]_vars

\* ------------------------------------------------------------- properties
Range(f) == {f[i] : i \in DOMAIN f}

\* C4: for base64, base32, base32-hex and hex, decoding what the encoder gave
\* for x succeeds and returns exactly x, whatever the length and the padding.
DecodeOfEncodeIsInput ==
    (stage = "done" /\ fmode \in {"base64", "base32", "base32-hex", "hex"})
        => r2 = Result(arg, NoErr)

\* A four-byte input (seven base32 characters and one '=') came back.
PaddedRoundTripDone ==
    /\ stage = "done" /\ fmode = "base32" /\ Len(arg) = 4
    /\ r1.dst[8] = PadChar /\ r2.dst = arg

\* C5: rot13 keeps the length, maps each letter to the letter of its case 13
\* places on (modulo 26), leaves every other byte as it is, and applied twice
\* gives the input back.
Rot13SelfInverse ==
    (fmode = "rot13" /\ stage \in {"text", "done"}) =>
        /\ r1.err = NoErr
        /\ Len(r1.dst) = Len(arg)
        /\ \A i \in 1..Len(arg) :
              LET a == arg[i]
                  b == r1.dst[i]
              IN  IF IsUpper(a) THEN IsUpper(b) /\ (b - 65) = (a - 65 + 13) % 26
                  ELSE IF IsLower(a) THEN IsLower(b) /\ (b - 97) = (a - 97 + 13) % 26
                  ELSE b = a
        /\ (stage = "done" => r2 = Result(arg, NoErr))

\* rot13 ran twice on "AnZ".
Rot13TwiceDone ==
    /\ fmode = "rot13" /\ stage = "done" /\ arg = <<65, 110, 90>>
    /\ r1.dst = <<78, 97, 77>>

\* C6: the Crockford decoder gives for every respelling of a text (letters in
\* either case, 'I' or 'L' for '1', 'O' for '0', '-' anywhere) what it gives
\* for the text, and for the encoder's text of x it gives x.
CrockfordDecodeIgnoresSpelling ==
    (fmode = "base32-crockford" /\ stage = "done") =>
        /\ r2 = base32CrockfordDec(base)
        /\ (base = r1.dst => r2 = Result(arg, NoErr))

\* An encoder's text respelled with an 'L', lowercase and a '-' was decoded.
RespelledTextDecoded ==
    /\ fmode = "base32-crockford" /\ stage = "done" /\ arg = <<8>>
    /\ edits = 3 /\ text # base
    /\ \E i \in 1..Len(text) : text[i] = 108
    /\ \E i \in 1..Len(text) : text[i] = Dash
    /\ r2.dst = arg

\* C7: the Crockford encoder's output holds only symbols of the Crockford
\* alphabet, for every input.
CrockfordOutputInAlphabet ==
    (fmode = "base32-crockford" /\ stage # "input" /\ base = r1.dst)
        => \A i \in 1..Len(r1.dst) : r1.dst[i] \in Range(crockfordEnc)

\* The canonical form of a hex word: uppercase, eight digits, zero-padded.
RECURSIVE StripZeroChars(_)
StripZeroChars(w) == IF w # <<>> /\ Head(w) = 48 THEN StripZeroChars(Tail(w)) ELSE w

CanonicalWord(w) ==
    LET d == StripZeroChars(ToUpper(w))
    IN  [i \in 1..(8 - Len(d)) |-> 48] \o d

\* Exponent bits all set and a mantissa that is not zero.
WordIsNaN(w) == IsNaN([i \in 1..8 |-> FromHexChar(CanonicalWord(w)[i])])

\* C8 as stated: float32-hex decoding and then encoding gives, for every word
\* (NaN patterns of any payload included), its canonical form and a space,
\* words in order.
Float32RoundTripAllWords ==
    (fmode = "float32-hex" /\ stage = "done") =>
        r2 = Result(Flatten([i \in 1..Len(toks) |-> CanonicalWord(toks[i]) \o <<SP>>]), NoErr)

\* C8 amended: every word that is not a NaN pattern comes back in canonical
\* form, every NaN pattern comes back as 7FC00000; one space after each word,
\* count and order kept.
Float32RoundTripUpToNaN ==
    (fmode = "float32-hex" /\ stage = "done") =>
        /\ r1.err = NoErr /\ r2.err = NoErr
        /\ Len(r2.dst) = 9 * Len(toks)
        /\ \A i \in 1..Len(toks) :
              /\ r2.dst[9 * i] = SP
              /\ SubSeq(r2.dst, 9 * i - 8, 9 * i - 1) =
                     IF WordIsNaN(toks[i]) THEN <<55, 70, 67, 48, 48, 48, 48, 48>>
                     ELSE CanonicalWord(toks[i])

\* "1 ff800000" went through: a subnormal written short and a lowercase -Inf.
Float32TwoWordsDone ==
    /\ fmode = "float32-hex" /\ stage = "done"
    /\ toks = << <<49>>, <<102, 102, 56, 48, 48, 48, 48, 48>> >>
    /\ r1.dst = <<49, 101, 45, 52, 53, SP, 45, 73, 110, 102, SP>>

\* C10: after a transform returns, the caller's input holds the bytes it held
\* before the call.
InputBytesUntouched ==
    stage \in {"text", "done"} => mem = arg

\* C1: codepoint or hex-extended asked to decode never runs a transform: usage
\* is printed, the exit status is 2 and standard output stays empty; they are
\* the only modes of the registry with no decoder, and every mode has an encoder.
EncodeOnlyModesRefuseDecode ==
    /\ \A m \in DOMAIN modes :
          /\ modes[m].encoder # "nil"
          /\ modes[m].decoder = "nil" <=> m \in {"codepoint", "hex-extended"}
    /\ (modeStr \in {"codepoint", "hex-extended"} /\ ~encode) =>
          /\ pc # "exec" /\ ~ran /\ ~stdinRead /\ stdout = <<>>
          /\ pc = "exit" => (exitCode = 2 /\ stderr = <<Usage>>)

\* hex-extended, the only argument, asked to decode, has exited.
DumpDecodeRefused ==
    /\ modeStr = "hex-extended" /\ ~encode /\ nargs = 1 /\ stdin # <<>>
    /\ pc = "exit" /\ exitCode = 2 /\ stderr = <<Usage>> /\ ianaAsked

\* C2: when the transform returns an error nothing is written to standard
\* output, even if it returned bytes with the error; "Error: <message>" goes to
\* standard error and the exit status is 1.
TransformErrorWritesNothing ==
    (pc = "exit" /\ ran /\ res.err # NoErr) =>
        /\ stdout = <<>>
        /\ stderr = <<Said("Error", res.err)>>
        /\ exitCode = 1

\* hexDec failed on "44g" after decoding one byte.
PartialBufferDropped ==
    /\ pc = "exit" /\ ran /\ mode = "hexDec" /\ fin = <<52, 52, 103>>
    /\ res.dst = <<68>> /\ res.err.kind = "InvalidByteError"

\* C3: no argument, more than one argument, or a name that neither the
\* registry (for the direction asked) nor the charset resolver turns into a
\* transform: usage and exit status 2 before standard input is read and before
\* a transform runs; exit status 2 in no other case; the resolver asked only
\* after the registry gave no transform.
UsageExitExactlyWhenUnresolved ==
    LET unresolved == Static = "nil" /\ IanaEncoding(modeStr) # "supported"
    IN  /\ ianaAsked => Static = "nil"
        /\ pc = "exit" =>
              /\ (nargs # 1 \/ unresolved) =>
                    (stderr = <<Usage>> /\ exitCode = 2 /\ ~stdinRead /\ ~ran)
              /\ exitCode = 2 => ((nargs # 1 \/ unresolved) /\ stderr = <<Usage>>)

\* C9: the transform gets standard input less one trailing '\n' when strip is
\* on and the input ends in '\n', and standard input as it is otherwise; on
\* success standard output is the result and one '\n' when emit is on, the
\* result alone when emit is off or the mode is hex-extended.
WrapperTouchesOneNewline ==
    ran =>
        /\ fin = IF strip /\ stdin # <<>> /\ stdin[Len(stdin)] = NL
                 THEN SubSeq(stdin, 1, Len(stdin) - 1)
                 ELSE stdin
        /\ (strip /\ Len(stdin) >= 2 /\ stdin[Len(stdin)] = NL /\ stdin[Len(stdin) - 1] = NL)
              => fin[Len(fin)] = NL
        /\ (pc = "exit" /\ exitCode = 0) =>
              stdout = res.dst \o (IF emitFlag /\ modeStr # "hex-extended"
                                   THEN <<NL>> ELSE <<>>)

\* rot13 of "4\n\n" with strip and emit on wrote "4\n" and one more '\n'.
TwoNewlinesInOneStripped ==
    /\ pc = "exit" /\ exitCode = 0 /\ mode = "rot13" /\ strip /\ emitFlag
    /\ stdin = <<52, NL, NL>> /\ fin = <<52, NL>> /\ stdout = <<52, NL, NL>>

====
